---- MODULE Spec2Model ----
(***************************************************************************)
(* vimouse: the input-translation engine of src/src/main.rs.               *)
(*                                                                         *)
(* The listener thread delivers one raw input event at a time to           *)
(* callback(), which reads and writes the process-wide statics             *)
(* (MOUSE_POSITION, MOUSE_SPEED, G_KEY_HELD, SCREEN_WIDTH, SCREEN_HEIGHT), *)
(* synthesizes events through send() and spawns one detached thread per    *)
(* scroll gesture (send_smooth_scroll).  Every callback invocation is one  *)
(* action; every iteration of a scroll thread's loop is one action.        *)
(*                                                                         *)
(* Numbers.  The program computes in f64.  Coordinates are modelled in     *)
(* fixed point, SubPx units per pixel: SubPx = 24 makes W/4, W/8, H/3 and  *)
(* H/6 exact for every whole-pixel screen size.  The display sizes of the  *)
(* model have a height divisible by 6, for which the f64 results are exact *)
(* as well.  Scroll velocities are modelled in millionths (Micro); the     *)
(* values 20 * 0.85^k stay further than 10^-3 away from every integer and  *)
(* from the 0.5 threshold, so truncation and the threshold tests agree     *)
(* with the f64 computation on every frame.                                *)
(***************************************************************************)
EXTENDS Integers, Sequences, FiniteSets, TLC

VARIABLES
    MOUSE_POSITION,   \* static mut MOUSE_POSITION: (f64, f64), in SubPx
    MOUSE_SPEED,      \* static mut MOUSE_SPEED: f64, in SubPx
    G_KEY_HELD,       \* static mut G_KEY_HELD: bool (TRUE = scroll mode)
    SCREEN_WIDTH,     \* static mut SCREEN_WIDTH: f64, in SubPx
    SCREEN_HEIGHT,    \* static mut SCREEN_HEIGHT: f64, in SubPx
    threads,          \* the scroll threads in flight, by slot
    running,          \* FALSE once std::process::exit has been called
    held,             \* modifier / hold keys physically down (environment)
    event,            \* the step just taken: the event given to callback, or a thread's frame
    ret,              \* what callback returned: "Some" (pass through) or "None" (suppress)
    sent,             \* the events handed to simulate() during the step, in order
    spawned           \* the thread the step spawned: "none", "scroll" or "print"

engine == <<MOUSE_POSITION, MOUSE_SPEED, G_KEY_HELD, SCREEN_WIDTH, SCREEN_HEIGHT>>
vars == <<MOUSE_POSITION, MOUSE_SPEED, G_KEY_HELD, SCREEN_WIDTH, SCREEN_HEIGHT,
          threads, running, held, event, ret, sent, spawned>>

----------------------------------------------------------------------------
(* Bounds and units *)

(* MaxAnimators: scroll threads in flight at once under SpecScroll.        *)
(* MaxPending: spawned scroll threads Spec keeps, unscheduled.             *)
(* MaxConcurrent: scroll threads in flight at once under SpecConcurrent.    *)
MaxAnimators == 1
MaxPending == 0
MaxConcurrent == 2

SubPx == 24
Micro == 1000000

Px(n) == n * SubPx

(* Program constants *)

SLOW_SPEED == 5 * SubPx
FAST_SPEED == 40 * SubPx
ULTRA_FAST_SPEED == 150 * SubPx

SCROLL_INITIAL_VELOCITY == 20 * Micro
SCROLL_DECELERATION_PCT == 85
SCROLL_MIN_VELOCITY == Micro \div 2

----------------------------------------------------------------------------
(* Keys and tables *)

DirectionKeys == {"KeyH", "KeyL", "KeyK", "KeyJ", "KeyY", "KeyU", "KeyB", "KeyN"}
CardinalKeys == {"KeyH", "KeyL", "KeyJ", "KeyK"}
GridKeys == {"KeyQ", "KeyW", "KeyE", "KeyR", "KeyA", "KeyS", "KeyD", "KeyF",
             "KeyZ", "KeyX", "KeyC", "KeyV"}
RightClickKeys == {"ControlLeft", "ControlRight", "CapsLock"}
ClickKeys == {"Space"} \cup RightClickKeys
SlowKeys == {"ShiftLeft", "ShiftRight"}
SpeedKeys == SlowKeys \cup {"Alt"}
UnboundKeys == {"KeyP"}

OtherPressKeys == UnboundKeys
OtherReleaseKeys == DirectionKeys \cup GridKeys \cup {"Escape", "KeyT", "KeyI"}
                    \cup UnboundKeys
TrackedKeys == SpeedKeys \cup {"KeyG"}

MOVEMENT_MAP ==
    [k \in DirectionKeys |->
        CASE k = "KeyH" -> <<-1, 0>>
          [] k = "KeyL" -> <<1, 0>>
          [] k = "KeyJ" -> <<0, 1>>
          [] k = "KeyK" -> <<0, -1>>
          [] k = "KeyY" -> <<-1, -1>>
          [] k = "KeyU" -> <<1, -1>>
          [] k = "KeyB" -> <<-1, 1>>
          [] k = "KeyN" -> <<1, 1>>]

SCREEN_CELL_MAP ==
    [k \in GridKeys |->
        CASE k = "KeyQ" -> <<0, 0>>
          [] k = "KeyW" -> <<1, 0>>
          [] k = "KeyE" -> <<2, 0>>
          [] k = "KeyR" -> <<3, 0>>
          [] k = "KeyA" -> <<0, 1>>
          [] k = "KeyS" -> <<1, 1>>
          [] k = "KeyD" -> <<2, 1>>
          [] k = "KeyF" -> <<3, 1>>
          [] k = "KeyZ" -> <<0, 2>>
          [] k = "KeyX" -> <<1, 2>>
          [] k = "KeyC" -> <<2, 2>>
          [] k = "KeyV" -> <<3, 2>>]

(* Variant: the scroll direction read from MOVEMENT_MAP. *)
ScrollDirectionFromMovementMap == [k \in CardinalKeys |-> MOVEMENT_MAP[k]]

(* The direction each cardinal key passes to send_smooth_scroll. *)
ScrollDirection ==
    [k \in CardinalKeys |->
        CASE k = "KeyH" -> <<-1, 0>>
          [] k = "KeyL" -> <<1, 0>>
          [] k = "KeyJ" -> <<0, -1>>
          [] k = "KeyK" -> <<0, 1>>]

----------------------------------------------------------------------------
(* Events *)

NoKey == "-"

MouseMoveEvent(x, y) == [type |-> "MouseMove", key |-> NoKey, x |-> x, y |-> y]
KeyPressEvent(k) == [type |-> "KeyPress", key |-> k, x |-> 0, y |-> 0]
KeyReleaseEvent(k) == [type |-> "KeyRelease", key |-> k, x |-> 0, y |-> 0]
OtherEvent(t) == [type |-> t, key |-> NoKey, x |-> 0, y |-> 0]
Startup == [type |-> "Startup", key |-> NoKey, x |-> 0, y |-> 0]
FrameStep(i) == [type |-> "Frame", key |-> NoKey, x |-> i, y |-> 0]
ThreadEnd(i) == [type |-> "ThreadEnd", key |-> NoKey, x |-> i, y |-> 0]

(* Synthetic events, as given to simulate(). *)
MouseMove(x, y) == [type |-> "MouseMove", x |-> x, y |-> y, button |-> "-"]
ButtonPress(b) == [type |-> "ButtonPress", x |-> 0, y |-> 0, button |-> b]
ButtonRelease(b) == [type |-> "ButtonRelease", x |-> 0, y |-> 0, button |-> b]
Wheel(dx, dy) == [type |-> "Wheel", x |-> dx, y |-> dy, button |-> "-"]

(* Native events that are neither a pointer move nor a key event. *)
OtherEventTypes == {"ButtonPress", "Wheel"}

(* rdev's simulate(&event) may succeed or fail.  The log of a step that    *)
(* called it once: one attempt, with either outcome.                       *)
simulate(e) == {<<[ev |-> e, ok |-> ok]>> : ok \in BOOLEAN}

(* send(): one simulate(); a failure is printed and send goes on; the 5 ms *)
(* sleep that follows is inside the step.                                  *)
send(e) == simulate(e)

Events(log) == [i \in 1..Len(log) |-> log[i].ev]

----------------------------------------------------------------------------
(* Pure computations of callback *)

(* Variant: the step is one pixel whatever the speed. *)
MoveTargetUnitStep(pos, direction, speed) ==
    <<pos[1] + direction[1] * SubPx, pos[2] + direction[2] * SubPx>>

(* MOUSE_POSITION + direction * MOUSE_SPEED, per axis. *)
MoveTarget(pos, direction, speed) ==
    <<pos[1] + direction[1] * speed, pos[2] + direction[2] * speed>>

(* Variant: a grid of 3 columns. *)
CellTargetThreeColumns(cell, w, h) ==
    <<(cell[1] * w) \div 3 + w \div 6, (cell[2] * h) \div 3 + h \div 6>>

(* Variant: the corner of the cell instead of its centre. *)
CellTargetCorner(cell, w, h) ==
    <<(cell[1] * w) \div 4, (cell[2] * h) \div 3>>

(* (col * SCREEN_WIDTH / 4. + SCREEN_WIDTH / 8.,                          *)
(*  row * SCREEN_HEIGHT / 3. + SCREEN_HEIGHT / 6.)                        *)
CellTarget(cell, w, h) ==
    <<(cell[1] * w) \div 4 + w \div 8, (cell[2] * h) \div 3 + h \div 6>>

----------------------------------------------------------------------------
(* Scroll threads (send_smooth_scroll) *)

Abs(v) == IF v >= 0 THEN v ELSE -v

(* Variant: rounding away from zero. *)
TruncateUp(v) ==
    IF v >= 0 THEN (v + Micro - 1) \div Micro ELSE -((-v + Micro - 1) \div Micro)

(* velocity as i64: truncation toward zero. *)
Truncate(v) == IF v >= 0 THEN v \div Micro ELSE -((-v) \div Micro)

(* Variant: a deceleration factor of 0.95. *)
DecelerateSlowly(v) ==
    IF v >= 0 THEN (v * 95) \div 100 ELSE -(((-v) * 95) \div 100)

(* Variant: the velocity is halved on every frame. *)
DecelerateHalf(v) == IF v >= 0 THEN v \div 2 ELSE -((-v) \div 2)

(* velocity *= SCROLL_DECELERATION *)
Decelerate(v) ==
    IF v >= 0 THEN (v * SCROLL_DECELERATION_PCT) \div 100
    ELSE -(((-v) * SCROLL_DECELERATION_PCT) \div 100)

(* Variant: a small velocity is kept as it is. *)
SnapNever(v) == v

(* if velocity.abs() < SCROLL_MIN_VELOCITY { velocity = 0.0 } *)
Snap(v) == IF Abs(v) < SCROLL_MIN_VELOCITY THEN 0 ELSE v

(* delta_x and delta_y are the locals of the loop body as the last frame   *)
(* computed them (0 before the first frame); frames counts the iterations. *)
NoThread ==
    [live |-> FALSE, dir |-> <<0, 0>>, velocity_x |-> 0, velocity_y |-> 0,
     delta_x |-> 0, delta_y |-> 0, frames |-> 0]

(* The thread as spawned: its velocities initialised, no frame run yet. *)
NewThread(direction_x, direction_y) ==
    [live |-> TRUE, dir |-> <<direction_x, direction_y>>,
     velocity_x |-> direction_x * SCROLL_INITIAL_VELOCITY,
     velocity_y |-> direction_y * SCROLL_INITIAL_VELOCITY,
     delta_x |-> 0, delta_y |-> 0, frames |-> 0]

(* while velocity_x.abs() > MIN || velocity_y.abs() > MIN *)
LoopCondition(t) ==
    Abs(t.velocity_x) > SCROLL_MIN_VELOCITY \/ Abs(t.velocity_y) > SCROLL_MIN_VELOCITY

Slots == DOMAIN threads
FreeSlots == {i \in Slots : ~threads[i].live}
LowestFree == CHOOSE i \in FreeSlots : \A j \in FreeSlots : i <= j

(* Variant: no thread is spawned. *)
send_smooth_scroll_NoSpawn(direction_x, direction_y) == threads

(* Variant: a new gesture cancels the threads in flight. *)
send_smooth_scroll_Cancelling(direction_x, direction_y) ==
    [i \in Slots |-> IF i = LowestFree THEN NewThread(direction_x, direction_y)
                     ELSE NoThread]

(* thread::spawn of one scroll thread; the caller does not wait for it. *)
send_smooth_scroll(direction_x, direction_y) ==
    [threads EXCEPT ![LowestFree] = NewThread(direction_x, direction_y)]

(* Variant: the wheel event is sent on every frame. *)
FrameLogEveryFrame(t) ==
    simulate(Wheel(Truncate(t.velocity_x), Truncate(t.velocity_y)))

(* The wheel event of one frame, if any: none when both deltas are 0. *)
FrameLog(t) ==
    IF Truncate(t.velocity_x) # 0 \/ Truncate(t.velocity_y) # 0
    THEN simulate(Wheel(Truncate(t.velocity_x), Truncate(t.velocity_y)))
    ELSE {<<>>}

(* Variant: a failed simulate() ends the thread. *)
AfterFrameAbortOnFailure(t, log) ==
    IF log # <<>> /\ ~log[1].ok THEN NoThread
    ELSE [t EXCEPT !.delta_x = Truncate(t.velocity_x),
                   !.delta_y = Truncate(t.velocity_y),
                   !.velocity_x = Snap(Decelerate(@)),
                   !.velocity_y = Snap(Decelerate(@)),
                   !.frames = @ + 1]

(* The thread after one iteration whose simulate() calls are log: the      *)
(* result of simulate() is dropped (let _ =), so log plays no part.        *)
AfterFrame(t, log) ==
    [t EXCEPT !.delta_x = Truncate(t.velocity_x),
              !.delta_y = Truncate(t.velocity_y),
              !.velocity_x = Snap(Decelerate(@)),
              !.velocity_y = Snap(Decelerate(@)),
              !.frames = @ + 1]

(* One iteration of the loop of thread i. *)
AnimatorFrame(i) ==
    /\ running
    /\ threads[i].live
    /\ LoopCondition(threads[i])
    /\ sent' \in FrameLog(threads[i])
    /\ threads' = [threads EXCEPT ![i] = AfterFrame(threads[i], sent')]
    /\ event' = FrameStep(i)
    /\ ret' = "-"
    /\ spawned' = "none"
    /\ UNCHANGED <<engine, running, held>>

(* Variant: the thread that ends switches scroll mode off. *)
AnimatorExitClearsMode(i) ==
    /\ running
    /\ threads[i].live
    /\ ~LoopCondition(threads[i])
    /\ threads' = [threads EXCEPT ![i] = NoThread]
    /\ G_KEY_HELD' = FALSE
    /\ event' = ThreadEnd(i)
    /\ ret' = "-"
    /\ sent' = <<>>
    /\ spawned' = "none"
    /\ UNCHANGED <<MOUSE_POSITION, MOUSE_SPEED, SCREEN_WIDTH, SCREEN_HEIGHT,
                   running, held>>

(* The loop condition is false: the closure returns and the thread ends. *)
AnimatorExit(i) ==
    /\ running
    /\ threads[i].live
    /\ ~LoopCondition(threads[i])
    /\ threads' = [threads EXCEPT ![i] = NoThread]
    /\ event' = ThreadEnd(i)
    /\ ret' = "-"
    /\ sent' = <<>>
    /\ spawned' = "none"
    /\ UNCHANGED <<engine, running, held>>

----------------------------------------------------------------------------
(* The environment: what the keyboard and the pointer can deliver *)

(* A key that is down repeats its KeyPress; the release of a speed key or  *)
(* of g comes only after a press of that key (held records which of these  *)
(* keys are down).  The other keys' releases are not tied to a press.      *)

NativePoints == {<<Px(960), Px(540)>>}
DisplaySizes == {<<Px(1200), Px(900)>>}

HeldAfterPress(key) == IF key \in TrackedKeys THEN held \cup {key} ELSE held

----------------------------------------------------------------------------
(* callback: one action per match arm *)

(* Variant: the move is not recorded. *)
PositionOfMoveStale(x, y) == MOUSE_POSITION

(* MOUSE_POSITION = (x, y) of the EventType::MouseMove *)
PositionOfMove(x, y) == <<x, y>>

(* EventType::MouseMove { x, y } *)
NativeMouseMove(x, y) ==
    /\ running
    /\ MOUSE_POSITION' = PositionOfMove(x, y)
    /\ event' = MouseMoveEvent(x, y)
    /\ ret' = "Some"
    /\ sent' = <<>>
    /\ spawned' = "none"
    /\ UNCHANGED <<MOUSE_SPEED, G_KEY_HELD, SCREEN_WIDTH, SCREEN_HEIGHT,
                   threads, running, held>>

(* KeyPress of h l k j y u b n *)
DirectionKeyPress(key) ==
    /\ running
    /\ key \in DirectionKeys
    /\ IF G_KEY_HELD
       THEN IF key \in CardinalKeys
            THEN /\ FreeSlots # {}
                 /\ threads' = send_smooth_scroll(ScrollDirection[key][1],
                                                  ScrollDirection[key][2])
                 /\ spawned' = "scroll"
                 /\ sent' = <<>>
            ELSE /\ UNCHANGED threads
                 /\ spawned' = "none"
                 /\ sent' = <<>>
       ELSE /\ sent' \in send(MouseMove(
                    MoveTarget(MOUSE_POSITION, MOVEMENT_MAP[key], MOUSE_SPEED)[1],
                    MoveTarget(MOUSE_POSITION, MOVEMENT_MAP[key], MOUSE_SPEED)[2]))
            /\ UNCHANGED threads
            /\ spawned' = "none"
    /\ event' = KeyPressEvent(key)
    /\ ret' = "None"
    /\ UNCHANGED <<engine, running, held>>

(* Variant: every click key is the left button. *)
ClickButtonAlwaysLeft(key) == "Left"

(* KeyPress of Space, ControlLeft, ControlRight, CapsLock *)
ClickButton(key) == IF key = "Space" THEN "Left" ELSE "Right"

ClickKeyPress(key) ==
    /\ running
    /\ key \in ClickKeys
    /\ sent' \in send(ButtonPress(ClickButton(key)))
    /\ event' = KeyPressEvent(key)
    /\ ret' = "None"
    /\ spawned' = "none"
    /\ UNCHANGED <<engine, threads, running, held>>

(* Variant: without a known display size a grid key is passed through. *)
GridKeyPressNeedsDisplay(key) ==
    /\ running
    /\ key \in GridKeys
    /\ IF SCREEN_WIDTH = 0 /\ SCREEN_HEIGHT = 0
       THEN sent' = <<>> /\ ret' = "Some"
       ELSE /\ sent' \in send(MouseMove(
                  CellTarget(SCREEN_CELL_MAP[key], SCREEN_WIDTH, SCREEN_HEIGHT)[1],
                  CellTarget(SCREEN_CELL_MAP[key], SCREEN_WIDTH, SCREEN_HEIGHT)[2]))
            /\ ret' = "None"
    /\ event' = KeyPressEvent(key)
    /\ spawned' = "none"
    /\ UNCHANGED <<engine, threads, running, held>>

(* KeyPress of q w e r a s d f z x c v *)
GridKeyPress(key) ==
    /\ running
    /\ key \in GridKeys
    /\ sent' \in send(MouseMove(
            CellTarget(SCREEN_CELL_MAP[key], SCREEN_WIDTH, SCREEN_HEIGHT)[1],
            CellTarget(SCREEN_CELL_MAP[key], SCREEN_WIDTH, SCREEN_HEIGHT)[2]))
    /\ event' = KeyPressEvent(key)
    /\ ret' = "None"
    /\ spawned' = "none"
    /\ UNCHANGED <<engine, threads, running, held>>

(* Variant: exit returns and the process goes on. *)
process_exit_returns(code) == TRUE

(* std::process::exit(code): whether the process still runs afterwards.    *)
(* It ends with all its threads, whatever the code.                        *)
process_exit(code) == FALSE

(* KeyPress of Escape: std::process::exit(0); callback never returns. *)
EscapeKeyPress ==
    /\ running
    /\ running' = process_exit(0)
    /\ event' = KeyPressEvent("Escape")
    /\ ret' = "-"
    /\ sent' = <<>>
    /\ spawned' = "none"
    /\ UNCHANGED <<engine, threads, held>>

(* Variant: Alt sets the slow speed too. *)
PressSpeedAlwaysSlow(key) == SLOW_SPEED

(* KeyPress of ShiftLeft, ShiftRight, Alt *)
PressSpeed(key) == IF key \in SlowKeys THEN SLOW_SPEED ELSE ULTRA_FAST_SPEED

SpeedKeyPress(key) ==
    /\ running
    /\ key \in SpeedKeys
    /\ MOUSE_SPEED' = PressSpeed(key)
    /\ held' = HeldAfterPress(key)
    /\ event' = KeyPressEvent(key)
    /\ ret' = "Some"
    /\ sent' = <<>>
    /\ spawned' = "none"
    /\ UNCHANGED <<MOUSE_POSITION, G_KEY_HELD, SCREEN_WIDTH, SCREEN_HEIGHT,
                   threads, running>>

(* Variant: g does not switch scroll mode on. *)
HoldModeOff(down) == FALSE

(* Variant: g leaves scroll mode on however it moves. *)
HoldModeStuck(down) == TRUE

(* G_KEY_HELD = true on the press of g, false on its release. *)
HoldMode(down) == down

(* KeyPress of g *)
GKeyPress ==
    /\ running
    /\ G_KEY_HELD' = HoldMode(TRUE)
    /\ held' = HeldAfterPress("KeyG")
    /\ event' = KeyPressEvent("KeyG")
    /\ ret' = "None"
    /\ sent' = <<>>
    /\ spawned' = "none"
    /\ UNCHANGED <<MOUSE_POSITION, MOUSE_SPEED, SCREEN_WIDTH, SCREEN_HEIGHT,
                   threads, running>>

(* Variant: t switches scroll mode on, never off. *)
ToggleAlwaysOn(flag) == TRUE

(* KeyPress of t: G_KEY_HELD = !G_KEY_HELD *)
Toggle(flag) == ~flag

TKeyPress ==
    /\ running
    /\ G_KEY_HELD' = Toggle(G_KEY_HELD)
    /\ event' = KeyPressEvent("KeyT")
    /\ ret' = "None"
    /\ sent' = <<>>
    /\ spawned' = "none"
    /\ UNCHANGED <<MOUSE_POSITION, MOUSE_SPEED, SCREEN_WIDTH, SCREEN_HEIGHT,
                   threads, running, held>>

(* KeyPress of i: spawns the thread that prints the clickable elements. *)
IKeyPress ==
    /\ running
    /\ event' = KeyPressEvent("KeyI")
    /\ ret' = "None"
    /\ sent' = <<>>
    /\ spawned' = "print"
    /\ UNCHANGED <<engine, threads, running, held>>

(* KeyPress of any other key *)
OtherKeyPress(key) ==
    /\ running
    /\ key \in OtherPressKeys
    /\ event' = KeyPressEvent(key)
    /\ ret' = "Some"
    /\ sent' = <<>>
    /\ spawned' = "none"
    /\ UNCHANGED <<engine, threads, running, held>>

(* KeyRelease of Space, ControlLeft, ControlRight, CapsLock *)
ClickKeyRelease(key) ==
    /\ running
    /\ key \in ClickKeys
    /\ sent' \in send(ButtonRelease(ClickButton(key)))
    /\ event' = KeyReleaseEvent(key)
    /\ ret' = "None"
    /\ spawned' = "none"
    /\ UNCHANGED <<engine, threads, running, held>>

(* Variant: the release gives the speed of a modifier that is still down. *)
ReleaseSpeedOfHeld(key) ==
    IF (held \ {key}) \cap SlowKeys # {} THEN SLOW_SPEED
    ELSE IF "Alt" \in held \ {key} THEN ULTRA_FAST_SPEED
    ELSE FAST_SPEED

(* MOUSE_SPEED = FAST_SPEED on the release of ShiftLeft, ShiftRight, Alt. *)
ReleaseSpeed(key) == FAST_SPEED

(* KeyRelease of ShiftLeft, ShiftRight, Alt *)
SpeedKeyRelease(key) ==
    /\ running
    /\ key \in SpeedKeys
    /\ key \in held
    /\ MOUSE_SPEED' = ReleaseSpeed(key)
    /\ held' = held \ {key}
    /\ event' = KeyReleaseEvent(key)
    /\ ret' = "Some"
    /\ sent' = <<>>
    /\ spawned' = "none"
    /\ UNCHANGED <<MOUSE_POSITION, G_KEY_HELD, SCREEN_WIDTH, SCREEN_HEIGHT,
                   threads, running>>

(* KeyRelease of g *)
GKeyRelease ==
    /\ running
    /\ "KeyG" \in held
    /\ G_KEY_HELD' = HoldMode(FALSE)
    /\ held' = held \ {"KeyG"}
    /\ event' = KeyReleaseEvent("KeyG")
    /\ ret' = "None"
    /\ sent' = <<>>
    /\ spawned' = "none"
    /\ UNCHANGED <<MOUSE_POSITION, MOUSE_SPEED, SCREEN_WIDTH, SCREEN_HEIGHT,
                   threads, running>>

(* Variant: the release of an unmatched key is suppressed. *)
OtherKeyReleaseSuppressed(key) ==
    /\ running
    /\ key \in OtherReleaseKeys
    /\ event' = KeyReleaseEvent(key)
    /\ ret' = "None"
    /\ sent' = <<>>
    /\ spawned' = "none"
    /\ UNCHANGED <<engine, threads, running, held>>

(* KeyRelease of any other key *)
OtherKeyRelease(key) ==
    /\ running
    /\ key \in OtherReleaseKeys
    /\ event' = KeyReleaseEvent(key)
    /\ ret' = "Some"
    /\ sent' = <<>>
    /\ spawned' = "none"
    /\ UNCHANGED <<engine, threads, running, held>>

(* Any other event type *)
OtherEventType(t) ==
    /\ running
    /\ t \in OtherEventTypes
    /\ event' = OtherEvent(t)
    /\ ret' = "Some"
    /\ sent' = <<>>
    /\ spawned' = "none"
    /\ UNCHANGED <<engine, threads, running, held>>

----------------------------------------------------------------------------
(* main: the statics when grab(callback) starts *)

(* display_size() failed: every static keeps its initial value. *)
InitNoDisplay ==
    /\ SCREEN_WIDTH = 0
    /\ SCREEN_HEIGHT = 0
    /\ MOUSE_POSITION = <<0, 0>>

(* display_size() returned (w, h); the pointer is where the OS says it is, *)
(* or at the centre of the screen when the OS cannot say.                  *)
InitDisplay ==
    \E size \in DisplaySizes :
        /\ SCREEN_WIDTH = size[1]
        /\ SCREEN_HEIGHT = size[2]
        /\ MOUSE_POSITION \in NativePoints \cup {<<size[1] \div 2, size[2] \div 2>>}

Statics ==
    /\ MOUSE_SPEED = FAST_SPEED
    /\ G_KEY_HELD = FALSE
    /\ running = TRUE
    /\ held = {}
    /\ event = Startup
    /\ ret = "-"
    /\ sent = <<>>
    /\ spawned = "none"

----------------------------------------------------------------------------
(* Spec: the listener thread.  Every arm of callback, from every value of *)
(* the statics, with the whole keyboard.  Scroll threads are not scheduled *)
(* here: at most MaxPending of them are spawned and stay as spawned; what  *)
(* a thread does once it runs is SpecScroll's subject.                     *)

Init ==
    /\ InitNoDisplay \/ InitDisplay
    /\ Statics
    /\ threads = [i \in 1..MaxPending |-> NoThread]

Next ==
    \/ \E p \in NativePoints : NativeMouseMove(p[1], p[2])
    \/ \E key \in DirectionKeys : DirectionKeyPress(key)
    \/ \E key \in ClickKeys : ClickKeyPress(key)
    \/ \E key \in GridKeys : GridKeyPress(key)
    \/ EscapeKeyPress
    \/ \E key \in SpeedKeys : SpeedKeyPress(key)
    \/ GKeyPress
    \/ TKeyPress
    \/ IKeyPress
    \/ \E key \in OtherPressKeys : OtherKeyPress(key)
    \/ \E key \in ClickKeys : ClickKeyRelease(key)
    \/ \E key \in SpeedKeys : SpeedKeyRelease(key)
    \/ GKeyRelease
    \/ \E key \in OtherReleaseKeys : OtherKeyRelease(key)
    \/ \E t \in OtherEventTypes : OtherEventType(t)

Spec == Init /\ [][Next]_vars

----------------------------------------------------------------------------
(* SpecScroll: the listener thread and the scroll threads together, every  *)
(* interleaving of callback invocations and thread frames, on a 1920x1080  *)
(* display with the pointer at its centre.  The keyboard is the keys of a  *)
(* scroll gesture: the direction keys, g, t and Escape.                    *)

InitScroll ==
    /\ SCREEN_WIDTH = Px(1920)
    /\ SCREEN_HEIGHT = Px(1080)
    /\ MOUSE_POSITION = <<Px(960), Px(540)>>
    /\ Statics
    /\ threads = [i \in 1..MaxAnimators |-> NoThread]

NextScroll ==
    \/ \E key \in DirectionKeys : DirectionKeyPress(key)
    \/ EscapeKeyPress
    \/ GKeyPress
    \/ TKeyPress
    \/ GKeyRelease
    \/ \E i \in Slots : AnimatorFrame(i)
    \/ \E i \in Slots : AnimatorExit(i)

SpecScroll == InitScroll /\ [][NextScroll]_vars

----------------------------------------------------------------------------
(* SpecConcurrent: several scroll gestures at once.  The listener thread   *)
(* and up to MaxConcurrent scroll threads, every interleaving; the         *)
(* keyboard is h, g and t: gestures are started, the pointer is moved and  *)
(* the mode changed while threads are in flight.                           *)

ConcurrentKeys == {"KeyH"}

InitConcurrent ==
    /\ SCREEN_WIDTH = Px(1920)
    /\ SCREEN_HEIGHT = Px(1080)
    /\ MOUSE_POSITION = <<Px(960), Px(540)>>
    /\ Statics
    /\ threads = [i \in 1..MaxConcurrent |-> NoThread]

NextConcurrent ==
    \/ \E key \in ConcurrentKeys : DirectionKeyPress(key)
    \/ GKeyPress
    \/ TKeyPress
    \/ GKeyRelease
    \/ \E i \in Slots : AnimatorFrame(i)
    \/ \E i \in Slots : AnimatorExit(i)

SpecConcurrent == InitConcurrent /\ [][NextConcurrent]_vars

----------------------------------------------------------------------------
(* Properties *)

Pointer == ~G_KEY_HELD
Scroll == G_KEY_HELD

IsPress(e, keys) == e.type = "KeyPress" /\ e.key \in keys
IsRelease(e, keys) == e.type = "KeyRelease" /\ e.key \in keys

(* The direction table as documented: y k u / h . l / b j n. *)
CompassVector(key) ==
    CASE key = "KeyH" -> <<-1, 0>>
      [] key = "KeyL" -> <<1, 0>>
      [] key = "KeyJ" -> <<0, 1>>
      [] key = "KeyK" -> <<0, -1>>
      [] key = "KeyY" -> <<-1, -1>>
      [] key = "KeyU" -> <<1, -1>>
      [] key = "KeyB" -> <<-1, 1>>
      [] key = "KeyN" -> <<1, 1>>

(* The grid as documented: three rows of four keys; (col, row) from 0. *)
GridRows == << <<"KeyQ", "KeyW", "KeyE", "KeyR">>,
               <<"KeyA", "KeyS", "KeyD", "KeyF">>,
               <<"KeyZ", "KeyX", "KeyC", "KeyV">> >>
GridColumns == 4
GridRowCount == 3
CellOf(key) ==
    CHOOSE c \in (0..(GridColumns - 1)) \X (0..(GridRowCount - 1)) :
        GridRows[c[2] + 1][c[1] + 1] = key

SpeedScalars == {Px(5), Px(40), Px(150)}

(* C1: in Pointer mode, at each speed scalar 5, 40, 150, the press of a    *)
(* direction key synthesizes exactly one pointer-move, to CursorEstimate + *)
(* the key's compass vector x speed, and the key event is suppressed.      *)
C1_DirectionMove ==
    [][(Pointer /\ IsPress(event', DirectionKeys)) =>
          /\ MOUSE_SPEED \in SpeedScalars
          /\ Events(sent') = <<MouseMove(
                MOUSE_POSITION[1] + CompassVector(event'.key)[1] * MOUSE_SPEED,
                MOUSE_POSITION[2] + CompassVector(event'.key)[2] * MOUSE_SPEED)>>
          /\ ret' = "None"]_vars

(* u pressed in Pointer mode at speed 150 from (960, 540): move to (1110, 390). *)
C1_Witness ==
    /\ event = KeyPressEvent("KeyU")
    /\ Pointer
    /\ MOUSE_SPEED = Px(150)
    /\ MOUSE_POSITION = <<Px(960), Px(540)>>
    /\ Events(sent) = <<MouseMove(Px(1110), Px(390))>>
    /\ ret = "None"

(* C2: when callback returns from an invocation that synthesized a         *)
(* pointer-move (a direction move or a grid jump), CursorEstimate equals   *)
(* the synthesized target.                                                 *)
C2_EstimateFollowsSynthesis ==
    (/\ event.type = "KeyPress"
     /\ Len(sent) = 1
     /\ sent[1].ev.type = "MouseMove")
        => MOUSE_POSITION = <<sent[1].ev.x, sent[1].ev.y>>

(* C3 as stated: on a 1200 x 900 screen the key of cell (1,1) jumps to     *)
(* (600, 450) and the key of cell (0,0) to (200, 150).                     *)
C3_ThreeByThreeTargets ==
    \A key \in GridKeys :
        (/\ event = KeyPressEvent(key)
         /\ SCREEN_WIDTH = Px(1200)
         /\ SCREEN_HEIGHT = Px(900)) =>
            /\ SCREEN_CELL_MAP[key] = <<1, 1>> =>
                   Events(sent) = <<MouseMove(Px(600), Px(450))>>
            /\ SCREEN_CELL_MAP[key] = <<0, 0>> =>
                   Events(sent) = <<MouseMove(Px(200), Px(150))>>

(* C3 amended: on a 1200 x 900 screen, with the grid of 4 columns and 3    *)
(* rows, the key of cell (1,1) jumps to (450, 450) and the key of cell     *)
(* (0,0) to (150, 150).                                                    *)
C3_FourByThreeTargets ==
    \A key \in GridKeys :
        (/\ event = KeyPressEvent(key)
         /\ SCREEN_WIDTH = Px(1200)
         /\ SCREEN_HEIGHT = Px(900)) =>
            /\ SCREEN_CELL_MAP[key] = <<1, 1>> =>
                   Events(sent) = <<MouseMove(Px(450), Px(450))>>
            /\ SCREEN_CELL_MAP[key] = <<0, 0>> =>
                   Events(sent) = <<MouseMove(Px(150), Px(150))>>

(* s, the key of cell (1,1), pressed on a 1200 x 900 screen. *)
C3_Witness ==
    /\ event = KeyPressEvent("KeyS")
    /\ SCREEN_CELL_MAP["KeyS"] = <<1, 1>>
    /\ SCREEN_WIDTH = Px(1200)
    /\ SCREEN_HEIGHT = Px(900)
    /\ Events(sent) = <<MouseMove(Px(450), Px(450))>>

(* C4: in either mode and at any speed the press of a grid key of cell     *)
(* (col, row) synthesizes exactly one pointer-move, to                     *)
(* (col x W/4 + W/8, row x H/3 + H/6); the key event is suppressed and     *)
(* SpeedLevel and Mode are unchanged.                                      *)
C4_GridJump ==
    [][IsPress(event', GridKeys) =>
          /\ Events(sent') = <<MouseMove(
                CellOf(event'.key)[1] * (SCREEN_WIDTH \div GridColumns)
                    + SCREEN_WIDTH \div (2 * GridColumns),
                CellOf(event'.key)[2] * (SCREEN_HEIGHT \div GridRowCount)
                    + SCREEN_HEIGHT \div (2 * GridRowCount))>>
          /\ ret' = "None"
          /\ MOUSE_SPEED' = MOUSE_SPEED
          /\ G_KEY_HELD' = G_KEY_HELD]_vars

(* v, cell (3,2), pressed in Scroll mode at speed 5 on 1200 x 900. *)
C4_Witness ==
    /\ event = KeyPressEvent("KeyV")
    /\ Scroll
    /\ MOUSE_SPEED = Px(5)
    /\ SCREEN_WIDTH = Px(1200)
    /\ SCREEN_HEIGHT = Px(900)
    /\ Events(sent) = <<MouseMove(Px(1050), Px(750))>>
    /\ ret = "None"

(* C5: a Shift press sets the speed scalar to 5 and its release to 40; an  *)
(* Alt press while a Shift is held sets it to 150 and the Alt release to   *)
(* 40; each of these events is passed through and synthesizes nothing.     *)
C5_SpeedModifiers ==
    /\ \A key \in {"ShiftLeft", "ShiftRight"} :
        /\ event = KeyPressEvent(key) => MOUSE_SPEED = Px(5)
        /\ event = KeyReleaseEvent(key) => MOUSE_SPEED = Px(40)
    /\ (event = KeyPressEvent("Alt") /\ held \cap {"ShiftLeft", "ShiftRight"} # {})
           => MOUSE_SPEED = Px(150)
    /\ event = KeyReleaseEvent("Alt") => MOUSE_SPEED = Px(40)
    /\ \A key \in {"ShiftLeft", "ShiftRight", "Alt"} :
        event \in {KeyPressEvent(key), KeyReleaseEvent(key)} =>
            ret = "Some" /\ sent = <<>> /\ spawned = "none"

(* Alt pressed while ShiftRight is held. *)
C5_Witness ==
    /\ event = KeyPressEvent("Alt")
    /\ "ShiftRight" \in held
    /\ MOUSE_SPEED = Px(150)
    /\ ret = "Some"
    /\ sent = <<>>

(* C6: every press of t flips Mode, whether or not g is held, is          *)
(* suppressed and synthesizes nothing; and Mode changes on no event other  *)
(* than a press of t or a press or release of g, so that two presses of t  *)
(* with no g event in between restore Mode.                                *)
C6_ToggleFlips ==
    [][/\ event' = KeyPressEvent("KeyT") =>
            /\ G_KEY_HELD' = ~G_KEY_HELD
            /\ ret' = "None"
            /\ sent' = <<>>
            /\ spawned' = "none"
       /\ G_KEY_HELD' # G_KEY_HELD =>
            event' \in {KeyPressEvent("KeyT"), KeyPressEvent("KeyG"),
                        KeyReleaseEvent("KeyG")}]_vars

(* t pressed while g is held: Mode flips to Pointer. *)
C6_Witness ==
    /\ event = KeyPressEvent("KeyT")
    /\ "KeyG" \in held
    /\ Pointer
    /\ ret = "None"
    /\ sent = <<>>

(* C7: a press of g sets Mode = Scroll and its release sets Mode =         *)
(* Pointer, whatever Mode was; both events are suppressed and synthesize   *)
(* nothing.                                                                *)
C7_HoldKey ==
    /\ event = KeyPressEvent("KeyG") => Scroll
    /\ event = KeyReleaseEvent("KeyG") => Pointer
    /\ event \in {KeyPressEvent("KeyG"), KeyReleaseEvent("KeyG")} =>
            ret = "None" /\ sent = <<>> /\ spawned = "none"

(* g released: Mode is Pointer. *)
C7_Witness ==
    /\ event = KeyReleaseEvent("KeyG")
    /\ "KeyG" \notin held
    /\ Pointer
    /\ ret = "None"
    /\ sent = <<>>

Live(th) == {i \in DOMAIN th : th[i].live}

(* C8: in Scroll mode the press of h, l, j or k spawns exactly one scroll  *)
(* thread and the press of y, u, b or n spawns none; in all 8 cases the    *)
(* event is suppressed, callback synthesizes nothing, and CursorEstimate,  *)
(* SpeedLevel and Mode are unchanged.                                      *)
C8_ScrollKeys ==
    [][(Scroll /\ IsPress(event', DirectionKeys)) =>
          /\ event'.key \in {"KeyH", "KeyL", "KeyJ", "KeyK"} =>
                /\ Cardinality(Live(threads')) = Cardinality(Live(threads)) + 1
                /\ \A i \in Live(threads) : threads'[i] = threads[i]
                /\ spawned' = "scroll"
          /\ event'.key \in {"KeyY", "KeyU", "KeyB", "KeyN"} =>
                /\ threads' = threads
                /\ spawned' = "none"
          /\ ret' = "None"
          /\ sent' = <<>>
          /\ MOUSE_POSITION' = MOUSE_POSITION
          /\ MOUSE_SPEED' = MOUSE_SPEED
          /\ G_KEY_HELD' = G_KEY_HELD]_vars

(* j pressed in Scroll mode: its thread is in flight. *)
C8_Witness ==
    /\ event = KeyPressEvent("KeyJ")
    /\ Scroll
    /\ spawned = "scroll"
    /\ Cardinality(Live(threads)) >= 1
    /\ ret = "None"
    /\ sent = <<>>

(* The thread a step has just spawned is the one in a slot that was free. *)
SpawnedWith(direction) ==
    \E i \in DOMAIN threads :
        /\ ~threads[i].live
        /\ threads'[i].live
        /\ threads'[i].frames = 0
        /\ threads'[i].dir = direction
        /\ threads'[i].velocity_x = direction[1] * 20 * Micro
        /\ threads'[i].velocity_y = direction[2] * 20 * Micro

(* C9 as stated: the thread spawned by h, l, j or k in Scroll mode gets    *)
(* the key's compass vector as its direction, and velocity direction x 20. *)
C9_CompassDirection ==
    [][(Scroll /\ IsPress(event', {"KeyH", "KeyL", "KeyJ", "KeyK"})) =>
          SpawnedWith(CompassVector(event'.key))]_vars

(* C9 amended: the thread gets (-1,0) for h, (1,0) for l, (0,-1) for j and *)
(* (0,1) for k: the compass vector with its vertical component negated;    *)
(* its initial velocity is that direction x 20.                            *)
C9_WheelDirection ==
    [][(Scroll /\ IsPress(event', {"KeyH", "KeyL", "KeyJ", "KeyK"})) =>
          SpawnedWith(<<CompassVector(event'.key)[1],
                        -CompassVector(event'.key)[2]>>)]_vars

(* j pressed in Scroll mode: a thread with velocity (0, -20). *)
C9_Witness ==
    /\ event = KeyPressEvent("KeyJ")
    /\ spawned = "scroll"
    /\ \E i \in DOMAIN threads :
        /\ threads[i].live
        /\ threads[i].frames = 0
        /\ threads[i].velocity_x = 0
        /\ threads[i].velocity_y = -20 * Micro

(* C10: in either mode and at any speed, Space pressed synthesizes exactly *)
(* one button-down(left) and released one button-up(left); ControlLeft,    *)
(* ControlRight and CapsLock likewise with the right button; all these     *)
(* events are suppressed and leave CursorEstimate, SpeedLevel and Mode     *)
(* unchanged.                                                              *)
C10_Clicks ==
    [][/\ IsPress(event', {"Space"}) =>
            Events(sent') = <<ButtonPress("Left")>>
       /\ IsRelease(event', {"Space"}) =>
            Events(sent') = <<ButtonRelease("Left")>>
       /\ IsPress(event', {"ControlLeft", "ControlRight", "CapsLock"}) =>
            Events(sent') = <<ButtonPress("Right")>>
       /\ IsRelease(event', {"ControlLeft", "ControlRight", "CapsLock"}) =>
            Events(sent') = <<ButtonRelease("Right")>>
       /\ event'.key \in {"Space", "ControlLeft", "ControlRight", "CapsLock"} =>
            /\ ret' = "None"
            /\ MOUSE_POSITION' = MOUSE_POSITION
            /\ MOUSE_SPEED' = MOUSE_SPEED
            /\ G_KEY_HELD' = G_KEY_HELD]_vars

(* CapsLock released in Scroll mode at speed 5. *)
C10_Witness ==
    /\ event = KeyReleaseEvent("CapsLock")
    /\ Scroll
    /\ MOUSE_SPEED = Px(5)
    /\ Events(sent) = <<ButtonRelease("Right")>>
    /\ ret = "None"

(* C11: a native pointer move to (x, y), in any state, is passed through,  *)
(* sets CursorEstimate to (x, y), synthesizes nothing, spawns nothing and  *)
(* leaves SpeedLevel, Mode and ScreenExtent unchanged; when the step       *)
(* before it was the same pointer move, the whole engine state is          *)
(* unchanged.                                                              *)
C11_PointerMove ==
    [][event'.type = "MouseMove" =>
          /\ ret' = "Some"
          /\ MOUSE_POSITION' = <<event'.x, event'.y>>
          /\ sent' = <<>>
          /\ spawned' = "none"
          /\ threads' = threads
          /\ MOUSE_SPEED' = MOUSE_SPEED
          /\ G_KEY_HELD' = G_KEY_HELD
          /\ SCREEN_WIDTH' = SCREEN_WIDTH
          /\ SCREEN_HEIGHT' = SCREEN_HEIGHT
          /\ (event = event' => engine' = engine)]_vars

(* The pointer moved to (960,540) in Scroll mode at speed 150, where no    *)
(* display size is known and the estimate started at (0,0).                *)
C11_Witness ==
    /\ event = MouseMoveEvent(Px(960), Px(540))
    /\ MOUSE_POSITION = <<Px(960), Px(540)>>
    /\ ret = "Some"
    /\ sent = <<>>
    /\ Scroll
    /\ MOUSE_SPEED = Px(150)
    /\ SCREEN_WIDTH = 0

(* The events C12 is about.  A native event is any step of the listener    *)
(* thread; the keys the claim names as bound are spelled out by class.     *)
NativeEvent(e) == e.type \notin {"Startup", "Frame", "ThreadEnd"}

BoundPressKeys ==
    DirectionKeys \cup GridKeys
    \cup {"Space", "ControlLeft", "ControlRight", "CapsLock", "Escape",
          "ShiftLeft", "ShiftRight", "Alt", "KeyG", "KeyT"}

BoundReleaseKeys ==
    {"Space", "ControlLeft", "ControlRight", "CapsLock",
     "ShiftLeft", "ShiftRight", "Alt", "KeyG"}

Unbound(e, pressKeys) ==
    /\ NativeEvent(e)
    /\ \/ e.type \notin {"MouseMove", "KeyPress", "KeyRelease"}
       \/ e.type = "KeyPress" /\ e.key \notin pressKeys
       \/ e.type = "KeyRelease" /\ e.key \notin BoundReleaseKeys

PassedUntouched ==
    /\ ret' = "Some"
    /\ sent' = <<>>
    /\ spawned' = "none"
    /\ threads' = threads
    /\ engine' = engine

(* C12 as stated: every event that is not a pointer move, key press or key *)
(* release, every press of a key that is not a direction, click, grid,     *)
(* exit, speed, scroll-hold or scroll-toggle key, and every release of a   *)
(* key that is not a click, speed or scroll-hold key, is passed through    *)
(* with no synthetic event, no spawned thread and no engine state change.  *)
C12_FailOpen ==
    [][Unbound(event', BoundPressKeys) => PassedUntouched]_vars

(* C12 amended: the same, with the diagnostic key i counted among the      *)
(* bound keys: its press is suppressed and spawns the print thread, with   *)
(* no synthetic event and no engine state change.                          *)
C12_FailOpenButDiagnosticKey ==
    [][/\ Unbound(event', BoundPressKeys \cup {"KeyI"}) => PassedUntouched
       /\ IsPress(event', {"KeyI"}) =>
            /\ ret' = "None"
            /\ spawned' = "print"
            /\ sent' = <<>>
            /\ threads' = threads
            /\ engine' = engine]_vars

(* The toggle key released in Scroll mode at speed 5: passed through.      *)
C12_Witness ==
    /\ event = KeyReleaseEvent("KeyT")
    /\ ret = "Some"
    /\ sent = <<>>
    /\ spawned = "none"
    /\ Scroll
    /\ MOUSE_SPEED = Px(5)

(* C13: from every reachable state, in either mode and with scroll threads *)
(* in flight or not, the press of Escape ends the process at once: the     *)
(* step synthesizes nothing, spawns nothing and changes no engine state,   *)
(* and once the process has ended no step is taken at all: no event is     *)
(* filtered, no engine state changes, no thread runs a frame and no        *)
(* synthetic event is emitted.                                             *)
C13_Exit ==
    [][/\ IsPress(event', {"Escape"}) =>
            /\ ~running'
            /\ sent' = <<>>
            /\ spawned' = "none"
            /\ engine' = engine
            /\ threads' = threads
       /\ ~running => vars' = vars]_vars

(* Escape pressed in Scroll mode while a scroll thread that has emitted    *)
(* two frames still has velocity left.                                     *)
C13_Witness ==
    /\ ~running
    /\ event = KeyPressEvent("Escape")
    /\ Scroll
    /\ \E i \in DOMAIN threads :
        /\ threads[i].live
        /\ threads[i].frames = 2
        /\ LoopCondition(threads[i])

(* The frame thread i is about to run is frame number n of a thread        *)
(* spawned with the given direction.                                       *)
RunsFrame(i, direction, n) ==
    /\ event'.type = "Frame"
    /\ event'.x = i
    /\ threads[i].dir = direction
    /\ threads[i].frames = n

(* C14: on a 1920x1080 screen, in Pointer mode at speed 40 with the        *)
(* estimate at (960,540), the press of u synthesizes a move to (1000,500); *)
(* the press of g gives Scroll mode; the press of h in Scroll mode starts  *)
(* a scroll thread with velocity (-20,0), whose first frame emits          *)
(* wheel(-20,0) and second frame wheel(-17,0), which runs frames only      *)
(* while its velocity magnitude is above 0.5 and ends when it is below     *)
(* 0.5; the release of g gives Pointer mode.                               *)
C14_Scenario ==
    [][/\ (/\ SCREEN_WIDTH = Px(1920) /\ SCREEN_HEIGHT = Px(1080)
           /\ Pointer /\ MOUSE_SPEED = Px(40)
           /\ MOUSE_POSITION = <<Px(960), Px(540)>>
           /\ IsPress(event', {"KeyU"})) =>
            Events(sent') = <<MouseMove(Px(1000), Px(500))>>
       /\ IsPress(event', {"KeyG"}) => Scroll'
       /\ (Scroll /\ IsPress(event', {"KeyH"})) => SpawnedWith(<<-1, 0>>)
       /\ \A i \in DOMAIN threads :
            /\ RunsFrame(i, <<-1, 0>>, 0) => Events(sent') = <<Wheel(-20, 0)>>
            /\ RunsFrame(i, <<-1, 0>>, 1) => Events(sent') = <<Wheel(-17, 0)>>
            /\ (event'.type = "Frame" /\ event'.x = i) =>
                    \/ Abs(threads[i].velocity_x) > Micro \div 2
                    \/ Abs(threads[i].velocity_y) > Micro \div 2
            /\ (event'.type = "ThreadEnd" /\ event'.x = i) =>
                    /\ Abs(threads[i].velocity_x) < Micro \div 2
                    /\ Abs(threads[i].velocity_y) < Micro \div 2
                    /\ ~threads'[i].live
       /\ IsRelease(event', {"KeyG"}) => Pointer']_vars

(* g released, back in Pointer mode, while the thread started by h has     *)
(* emitted its first two frames.                                           *)
C14_Witness ==
    /\ event = KeyReleaseEvent("KeyG")
    /\ Pointer
    /\ SCREEN_WIDTH = Px(1920)
    /\ \E i \in DOMAIN threads :
        /\ threads[i].live
        /\ threads[i].dir = <<-1, 0>>
        /\ threads[i].frames = 2
        /\ threads[i].velocity_x = -14450000

(* The magnitude of the wheel delta the last frame of a thread computed;   *)
(* the thread moves on one axis, so the other component is 0.              *)
DeltaMagnitude(t) == Abs(t.delta_x) + Abs(t.delta_y)

(* Thread i runs a frame that emits a wheel event, and its previous frame  *)
(* emitted one too.                                                        *)
EmitsAgain(i) ==
    /\ event'.type = "Frame"
    /\ event'.x = i
    /\ threads[i].frames >= 1
    /\ DeltaMagnitude(threads[i]) # 0
    /\ sent' # <<>>

(* C15 as stated: the wheel deltas one scroll thread emits are strictly    *)
(* decreasing in magnitude from each frame to the next.                    *)
C15_StrictlyDecreasing ==
    [][\A i \in DOMAIN threads :
          EmitsAgain(i) =>
              DeltaMagnitude(threads'[i]) < DeltaMagnitude(threads[i])]_vars

(* C15 amended: the magnitudes never increase from one emitted delta to    *)
(* the next, and decrease strictly while the previous magnitude is above   *)
(* 3; magnitudes 3, 2 and 1 repeat.                                        *)
C15_NonIncreasing ==
    [][\A i \in DOMAIN threads :
          EmitsAgain(i) =>
              /\ DeltaMagnitude(threads'[i]) <= DeltaMagnitude(threads[i])
              /\ DeltaMagnitude(threads[i]) > 3 =>
                    DeltaMagnitude(threads'[i]) < DeltaMagnitude(threads[i])]_vars

(* A thread whose last two frames both emitted a delta of magnitude 3.     *)
C15_Witness ==
    /\ event.type = "Frame"
    /\ sent # <<>>
    /\ \E i \in DOMAIN threads :
        /\ event.x = i
        /\ threads[i].live
        /\ threads[i].frames = 12
        /\ DeltaMagnitude(threads[i]) = 3
        /\ Events(sent) \in {<<Wheel(3, 0)>>, <<Wheel(-3, 0)>>,
                             <<Wheel(0, 3)>>, <<Wheel(0, -3)>>}

(* C16: every scroll thread, started at velocity 20 on one axis, runs at   *)
(* most 23 iterations of its loop; when the loop has ended both velocity   *)
(* components are exactly 0, and after 23 iterations the loop has ended,   *)
(* so that no further iteration runs and no further wheel event is sent.   *)
C16_Terminates ==
    \A i \in DOMAIN threads :
        threads[i].live =>
            /\ threads[i].frames <= 23
            /\ threads[i].frames = 23 => ~LoopCondition(threads[i])
            /\ ~LoopCondition(threads[i]) =>
                    /\ threads[i].velocity_x = 0
                    /\ threads[i].velocity_y = 0

(* A thread has just run its 23rd iteration and is at rest.                *)
C16_Witness ==
    /\ event.type = "Frame"
    /\ running
    /\ threads[event.x].live
    /\ threads[event.x].frames = 23
    /\ threads[event.x].velocity_x = 0
    /\ threads[event.x].velocity_y = 0
    /\ ~LoopCondition(threads[event.x])

(* d is v truncated toward zero, v in millionths. *)
IsTruncationOf(d, v) ==
    /\ d * v >= 0
    /\ Abs(d) * Micro <= Abs(v)
    /\ Abs(v) < (Abs(d) + 1) * Micro

(* w is v multiplied by 0.85, then set to 0 when under 0.5 in magnitude.   *)
IsDecayOf(w, v) ==
    IF Abs(v) * 85 < 50 * Micro
    THEN w = 0
    ELSE /\ (w > 0) = (v > 0)
         /\ (w < 0) = (v < 0)
         /\ 100 * Abs(w) <= 85 * Abs(v)
         /\ 85 * Abs(v) < 100 * (Abs(w) + 1)

(* What every frame of thread i does to its velocity, and when the loop    *)
(* runs and ends; wheel is what the frame must have handed to simulate()   *)
(* given its truncated deltas dx, dy.                                      *)
FrameStepOf(i, wheel(_, _)) ==
    /\ (event'.type = "Frame" /\ event'.x = i) =>
            /\ \/ Abs(threads[i].velocity_x) > Micro \div 2
               \/ Abs(threads[i].velocity_y) > Micro \div 2
            /\ IsTruncationOf(threads'[i].delta_x, threads[i].velocity_x)
            /\ IsTruncationOf(threads'[i].delta_y, threads[i].velocity_y)
            /\ Events(sent') = wheel(threads'[i].delta_x, threads'[i].delta_y)
            /\ IsDecayOf(threads'[i].velocity_x, threads[i].velocity_x)
            /\ IsDecayOf(threads'[i].velocity_y, threads[i].velocity_y)
    /\ (event'.type = "ThreadEnd" /\ event'.x = i) =>
            /\ threads[i].velocity_x = 0
            /\ threads[i].velocity_y = 0
    /\ (threads[i].live /\ threads[i].velocity_x = 0 /\ threads[i].velocity_y = 0) =>
            ~(event'.type = "Frame" /\ event'.x = i)

OneWheelAlways(dx, dy) == <<Wheel(dx, dy)>>
OneWheelUnlessZero(dx, dy) == IF dx = 0 /\ dy = 0 THEN <<>> ELSE <<Wheel(dx, dy)>>

(* C17 as stated: on every frame in which a velocity magnitude exceeds 0.5 *)
(* the thread synthesizes one wheel event with the velocity components     *)
(* truncated toward zero, then multiplies both components by 0.85 and sets *)
(* to 0 any component then under 0.5; the loop ends exactly when both      *)
(* components are 0.                                                       *)
C17_WheelEveryFrame ==
    [][\A i \in DOMAIN threads : FrameStepOf(i, OneWheelAlways)]_vars

(* C17 amended: the same, except that a frame whose truncated deltas are   *)
(* both 0 synthesizes no wheel event; it still decays the velocity.        *)
C17_WheelUnlessZero ==
    [][\A i \in DOMAIN threads : FrameStepOf(i, OneWheelUnlessZero)]_vars

(* The 21st frame of a thread: velocity 0.78 before it, nothing sent,      *)
(* velocity 0.66 after it.                                                 *)
C17_Witness ==
    /\ event.type = "Frame"
    /\ sent = <<>>
    /\ threads[event.x].live
    /\ threads[event.x].frames = 21
    /\ threads[event.x].delta_x = 0
    /\ threads[event.x].delta_y = 0
    /\ Abs(threads[event.x].velocity_x) + Abs(threads[event.x].velocity_y)
            > Micro \div 2

(* The wheel delta magnitudes a scroll thread started at velocity 20 emits *)
(* when it runs alone, frame by frame; 0 stands for a frame that emits no  *)
(* event.                                                                  *)
SoloDeltas ==
    <<20, 17, 14, 12, 10, 8, 7, 6, 5, 4, 3, 3, 2, 2, 2, 1, 1, 1, 1, 0, 0, 0, 0>>

SoloWheel(direction, n) ==
    IF SoloDeltas[n] = 0 THEN <<>>
    ELSE <<Wheel(direction[1] * SoloDeltas[n], direction[2] * SoloDeltas[n])>>

(* C18: the press of a scroll key returns without a wheel event having     *)
(* been sent, and spawns one more thread also while threads are in flight; *)
(* a thread in flight is touched by no step but its own: it ends only by   *)
(* its own return, with both velocity components 0, and its n-th frame     *)
(* emits the n-th delta of the sequence it emits alone, whatever callback  *)
(* and the other threads do in between.                                    *)
C18_NoCancellation ==
    [][/\ (Scroll /\ IsPress(event', {"KeyH", "KeyL", "KeyJ", "KeyK"})) =>
            /\ ret' = "None"
            /\ sent' = <<>>
            /\ \E i \in DOMAIN threads :
                /\ ~threads[i].live
                /\ threads'[i].live
                /\ threads'[i].frames = 0
                /\ \A j \in DOMAIN threads \ {i} : threads'[j] = threads[j]
       /\ \A i \in DOMAIN threads :
            threads[i].live =>
                /\ (event'.type = "Frame" /\ event'.x = i) =>
                        /\ threads[i].frames < Len(SoloDeltas)
                        /\ threads'[i].live
                        /\ threads'[i].frames = threads[i].frames + 1
                        /\ Events(sent') =
                              SoloWheel(threads[i].dir, threads[i].frames + 1)
                /\ (event'.type = "ThreadEnd" /\ event'.x = i) =>
                        /\ threads[i].frames = Len(SoloDeltas)
                        /\ threads[i].velocity_x = 0
                        /\ threads[i].velocity_y = 0
                        /\ ~threads'[i].live
                /\ ~(event'.type \in {"Frame", "ThreadEnd"} /\ event'.x = i) =>
                        threads'[i] = threads[i]]_vars

(* Two threads in flight, the one in the second slot ahead of the one in   *)
(* the first slot, which has just emitted its second delta; Pointer mode.  *)
C18_Witness ==
    /\ Cardinality(Live(threads)) = 2
    /\ event = FrameStep(1)
    /\ Events(sent) = <<Wheel(-17, 0)>>
    /\ threads[1].frames = 2
    /\ threads[2].frames = 5
    /\ Pointer

(* What callback hands to simulate() and the mode it leaves, for the keys  *)
(* of SpecConcurrent, from the event and the engine state alone.           *)
FilterSynthesis(e, position, speed, scrollMode) ==
    CASE IsPress(e, DirectionKeys) ->
            IF scrollMode THEN <<>>
            ELSE <<MouseMove(position[1] + CompassVector(e.key)[1] * speed,
                             position[2] + CompassVector(e.key)[2] * speed)>>
      [] OTHER -> <<>>

FilterMode(e, scrollMode) ==
    CASE IsPress(e, {"KeyG"}) -> TRUE
      [] IsRelease(e, {"KeyG"}) -> FALSE
      [] IsPress(e, {"KeyT"}) -> ~scrollMode
      [] OTHER -> scrollMode

(* C19: no step of a scroll thread changes the engine state; the engine    *)
(* state changes only in a step of callback, and what callback returns,    *)
(* synthesizes and writes is determined by its event and the engine state  *)
(* before it, whatever the scroll threads have done in between.            *)
C19_AnimatorsLeaveEngine ==
    [][/\ event'.type \in {"Frame", "ThreadEnd"} => engine' = engine
       /\ engine' # engine => event'.type \in {"MouseMove", "KeyPress", "KeyRelease"}
       /\ (event'.type \in {"KeyPress", "KeyRelease"} /\ running') =>
            /\ ret' = "None"
            /\ Events(sent') =
                  FilterSynthesis(event', MOUSE_POSITION, MOUSE_SPEED, G_KEY_HELD)
            /\ G_KEY_HELD' = FilterMode(event', G_KEY_HELD)
            /\ MOUSE_POSITION' = MOUSE_POSITION
            /\ MOUSE_SPEED' = MOUSE_SPEED]_vars

(* h pressed in Pointer mode between the frames of two scroll threads: a   *)
(* move to (920,540).                                                      *)
C19_Witness ==
    /\ event = KeyPressEvent("KeyH")
    /\ Events(sent) = <<MouseMove(Px(920), Px(540))>>
    /\ Pointer
    /\ Cardinality(Live(threads)) = 2
    /\ threads[1].frames = 3
    /\ threads[2].frames = 1

(* C20: a step that hands an event to simulate() does so once, whether the *)
(* injection succeeds or fails, and what it leaves does not depend on the  *)
(* outcome: the process runs on, the engine state is unchanged, callback   *)
(* returns the same decision and touches no thread, and a scroll thread    *)
(* goes on to its next frame with the velocity decayed as always, nothing  *)
(* being sent a second time.                                               *)
C20_FailureNonFatal ==
    [][sent' # <<>> =>
          /\ Len(sent') = 1
          /\ running' = running
          /\ engine' = engine
          /\ event'.type = "KeyPress" =>
                /\ ret' = "None"
                /\ threads' = threads
          /\ event'.type = "Frame" =>
                /\ threads'[event'.x].live
                /\ threads'[event'.x].frames = threads[event'.x].frames + 1
                /\ IsDecayOf(threads'[event'.x].velocity_x,
                             threads[event'.x].velocity_x)
                /\ IsDecayOf(threads'[event'.x].velocity_y,
                             threads[event'.x].velocity_y)
                /\ \A j \in DOMAIN threads \ {event'.x} :
                        threads'[j] = threads[j]
          /\ event'.type \in {"KeyPress", "Frame"}]_vars

(* The third frame of a scroll thread: its wheel(0,14) was refused, and    *)
(* the thread is at velocity 12.28 for its fourth frame.                   *)
C20_Witness ==
    /\ event.type = "Frame"
    /\ Len(sent) = 1
    /\ ~sent[1].ok
    /\ sent[1].ev = Wheel(0, 14)
    /\ threads[event.x].live
    /\ threads[event.x].frames = 3
    /\ threads[event.x].velocity_y = 12282500

C22_ScrollWhileHeld == "KeyG" \in held => Scroll

(* C22 amended: every press of g gives Scroll, and while g stays down the  *)
(* mode leaves Scroll only by a press of t, which flips it to Pointer with *)
(* g still down, and comes back to Scroll only by a press of t or a        *)
(* repeated press of g; no other key pressed or released during the hold   *)
(* changes the mode.                                                       *)
C22_ScrollWhileHeldUnlessToggled ==
    [][/\ IsPress(event', {"KeyG"}) => (Scroll' /\ "KeyG" \in held')
       /\ ("KeyG" \in held /\ "KeyG" \in held' /\ Scroll /\ Pointer') =>
            IsPress(event', {"KeyT"})
       /\ ("KeyG" \in held /\ "KeyG" \in held' /\ Pointer /\ Scroll') =>
            IsPress(event', {"KeyT", "KeyG"})
       /\ ("KeyG" \in held /\ IsPress(event', {"KeyT"})) =>
            G_KEY_HELD' = ~G_KEY_HELD]_vars

(* g is down, Alt was pressed during the hold, and the mode is Scroll.     *)
C22_Witness ==
    /\ "KeyG" \in held
    /\ event = KeyPressEvent("Alt")
    /\ MOUSE_SPEED = Px(150)
    /\ Scroll

SpeedModifierKeys == {"ShiftLeft", "ShiftRight", "Alt"}

(* C23: the speed is 40 at the start and one of 5, 40, 150 in every state; *)
(* it is 40 whenever none of ShiftLeft, ShiftRight, Alt is down; only a    *)
(* press or release of one of these keys changes it, and after such an     *)
(* event it is what that event sets: 5 for a Shift press, 150 for an Alt   *)
(* press, 40 for a release, also while another of the three is still down. *)
C23_SpeedInvariant ==
    /\ MOUSE_SPEED = Px(40)
    /\ [][/\ MOUSE_SPEED' \in {Px(5), Px(40), Px(150)}
          /\ held' \cap SpeedModifierKeys = {} => MOUSE_SPEED' = Px(40)
          /\ MOUSE_SPEED' # MOUSE_SPEED =>
                event'.type \in {"KeyPress", "KeyRelease"}
                    /\ event'.key \in SpeedModifierKeys
          /\ IsPress(event', {"ShiftLeft", "ShiftRight"}) => MOUSE_SPEED' = Px(5)
          /\ IsPress(event', {"Alt"}) => MOUSE_SPEED' = Px(150)
          /\ IsRelease(event', SpeedModifierKeys) => MOUSE_SPEED' = Px(40)]_vars

(* ShiftLeft released while Alt is still down: speed 40.                   *)
C23_Witness ==
    /\ event = KeyReleaseEvent("ShiftLeft")
    /\ "Alt" \in held
    /\ MOUSE_SPEED = Px(40)

(* e is a wheel event along direction, of magnitude 1 to 20.               *)
WheelAlong(e, direction) ==
    /\ e.type = "Wheel"
    /\ \E m \in 1..20 : e.x = direction[1] * m /\ e.y = direction[2] * m

(* C24: every wheel event is sent by a frame of a scroll thread, one per   *)
(* frame at most; it has one non-zero component, on the axis and with the  *)
(* sign of the direction the thread was spawned with, of magnitude 1 to    *)
(* 20, and its other component is 0; no wheel(0,0) is sent: a frame whose  *)
(* truncated deltas are both 0 sends nothing and still decays the          *)
(* velocity.                                                               *)
C24_WheelShape ==
    [][/\ \A k \in 1..Len(sent') :
            sent'[k].ev.type = "Wheel" => event'.type = "Frame"
       /\ event'.type = "Frame" =>
            /\ threads[event'.x].dir \in {<<-1, 0>>, <<1, 0>>, <<0, -1>>, <<0, 1>>}
            /\ Len(sent') <= 1
            /\ \A k \in 1..Len(sent') :
                    WheelAlong(sent'[k].ev, threads[event'.x].dir)
            /\ (threads'[event'.x].delta_x = 0 /\ threads'[event'.x].delta_y = 0)
                    <=> sent' = <<>>
            /\ sent' = <<>> =>
                    /\ threads'[event'.x].frames = threads[event'.x].frames + 1
                    /\ IsDecayOf(threads'[event'.x].velocity_x,
                                 threads[event'.x].velocity_x)
                    /\ IsDecayOf(threads'[event'.x].velocity_y,
                                 threads[event'.x].velocity_y)]_vars

(* The 19th frame of a thread spawned by j: its last event, wheel(0,-1).   *)
C24_Witness ==
    /\ event.type = "Frame"
    /\ threads[event.x].dir = <<0, -1>>
    /\ threads[event.x].frames = 19
    /\ Events(sent) = <<Wheel(0, -1)>>

====
